---- MODULE Spec2Model ----
\* A model of the server-side request handlers of the Riot API player site:
\*   src/src/app/api/lol-player-stats/route.ts  (fetchWithRetry, POST player-stats)
\*   src/src/app/api/lol-history/route.ts       (POST history, POST match-details)
\* One handler invocation is a state machine over the upstream calls it awaits.
EXTENDS Integers, Sequences, FiniteSets, TLC

VARIABLES
    handler,  \* which entry point runs: "none", "history", "stats", "details", "direct"
    body,     \* the parsed JSON body of the request: [f1, f2]
    pc,       \* the await the handler is suspended at
    active,   \* call name -> frame of an upstream call that is in progress
    res,      \* call name -> Response object held in a local of the handler
    tasks,    \* match id -> settled/pending promise of the Promise.all batch
    issued,   \* call names for which the handler has started an upstream call
    resp,     \* the responses the handler has returned (NextResponse.json)
    arg,      \* the argument of the function applied on its own (unit specifications)
    out,      \* what that function returned
    championCache  \* the module variable championCache of championMapping.ts

\* What the request handlers never touch.
unitVars == <<arg, out, championCache>>

vars == <<handler, body, pc, active, res, tasks, issued, resp, arg, out, championCache>>

-----------------------------------------------------------------------------
\* Bounds of the model.

\* Longest match-id list the upstream returns.
MaxIds == 2

\* Longest participant list of a match given to the team builder.
MaxParticipants == 3

\* Longest list of match-detail results given to the champion aggregate.
MaxSample == 3

\* Largest kills, assists or deaths count of the player.
MaxStat == 7

\* Number of fetchChampionData calls made in the process.
MaxCalls == 2

\* Most frames of a match timeline.
MaxFrames == 2

\* Number of clicks on matches of the history list.
MaxClicks == 2

\* Program constants.
DefaultMaxRetries == 3
BackoffUnit == 2000
SampleSize == 10
RemakeThreshold == 180

-----------------------------------------------------------------------------
\* Values.

Missing == "undefined"
Empty == ""
FieldValues == {Missing, Empty, "x"}
Bodies == [f1 : FieldValues, f2 : FieldValues]

\* !value for a request-body field (undefined and "" are falsy).
Falsy_OnlyUndefined(v) == v = Missing
Falsy(v) == v = Missing \/ v = Empty

Statuses == {200, 404, 429}
\* fetch() rejects (network failure): modelled as an outcome with status 0.
NetworkError == [status |-> 0]
IsThrow(o) == o.status = 0
\* Response.ok
Ok(r) == r.status = 200

EmptyMap == [x \in {} |-> x]

\* let championCache = null
NullCache == [null |-> TRUE, mapping |-> <<>>]
\* The unit variables when no unit is under test.
NoUnit ==
    /\ arg = <<>>
    /\ out = <<>>
    /\ championCache = NullCache
Call(kind, i) == <<kind, i>>
Kind(c) == c[1]

MatchIdSet == 1..MaxIds
\* The match-id lists the upstream can answer with (ids are distinct).
IdLists ==
    {s \in UNION {[1..n -> MatchIdSet] : n \in 0..MaxIds} :
        \A i, j \in DOMAIN s : i # j => s[i] # s[j]}

NoMatch == [matchId |-> 0, hasPlayer |-> FALSE]

\* A parsed JSON body: the match-id list, the match, or the list of entries it
\* carries (only the part its endpoint fills is read).
NoBody == [ids |-> <<>>, match |-> NoMatch, data |-> <<>>]

\* The champion catalogs Data Dragon can answer with (Object.values(data.data)).
Ahri == [key |-> "103", id |-> "Ahri", name |-> "Ahri"]
Zed == [key |-> "238", id |-> "Zed", name |-> "Zed"]
Catalogs == {<<>>, <<Ahri>>, <<Ahri, Zed>>}

\* The JSON payloads of a successful upstream answer, by endpoint.
Payloads(c) ==
    CASE Kind(c) = "matchIds" -> {[NoBody EXCEPT !.ids = l] : l \in IdLists}
      [] Kind(c) = "champions" -> {[NoBody EXCEPT !.data = d] : d \in Catalogs}
      [] Kind(c) = "click" ->
            {[NoBody EXCEPT !.match = [matchId |-> c[3], hasPlayer |-> TRUE]]}
      [] Kind(c) \in {"detail", "match"} ->
            {[NoBody EXCEPT !.match = [matchId |-> c[2], hasPlayer |-> b]] :
                 b \in BOOLEAN}
      [] OTHER -> {[NoBody EXCEPT !.data = <<Kind(c)>>]}

\* Everything the upstream can do to one request.
Upstream(c) ==
    {[status |-> 200, body |-> p] : p \in Payloads(c)}
    \cup {[status |-> s, body |-> NoBody] : s \in Statuses \ {200}}
    \cup {NetworkError}

-----------------------------------------------------------------------------
\* Frames of upstream calls.  The log is the history of one call:
\* requests sent, responses received, waits started.

Req(url, opts) == [t |-> "req", url |-> url, opts |-> opts]
Resp(o) == [t |-> "resp", r |-> o]
Rejected == [t |-> "reject"]
Wait(ms) == [t |-> "wait", ms |-> ms]

NoResponse == [status |-> -1]

\* await fetch(url, options) issued directly by a handler.
fetch(url, opts) ==
    [kind |-> "plain", url |-> url, opts |-> opts, max |-> 0, attempt |-> 0,
     pc |-> "await_last", log |-> <<Req(url, opts)>>, ret |-> NoResponse]

\* attempt * 2000
BackoffExponential(attempt) == (2 ^ attempt) * 1000
Backoff(attempt) == attempt * BackoffUnit

\* fetchWithRetry up to its first await.
fetchWithRetry(url, opts, maxRetries) ==
    [kind |-> "retry", url |-> url, opts |-> opts, max |-> maxRetries,
     attempt |-> IF 1 <= maxRetries THEN 1 ELSE 0,
     pc |-> IF 1 <= maxRetries THEN "await_fetch" ELSE "await_last",
     log |-> <<Req(url, opts)>>, ret |-> NoResponse]

\* The step a frame takes when its pending fetch settles with outcome o.
OnResponse_RetryAnyError(f, o) ==
    IF IsThrow(o)
    THEN [f EXCEPT !.pc = "threw", !.log = Append(@, Rejected)]
    ELSE IF f.pc = "await_fetch" /\ ~Ok(o)
         THEN [f EXCEPT !.pc = "await_timer",
                        !.log = Append(Append(@, Resp(o)), Wait(Backoff(f.attempt)))]
         ELSE [f EXCEPT !.pc = "returned", !.ret = o, !.log = Append(@, Resp(o))]
OnResponse(f, o) ==
    IF IsThrow(o)
    THEN [f EXCEPT !.pc = "threw", !.log = Append(@, Rejected)]
    ELSE IF f.pc = "await_fetch" /\ o.status = 429
         THEN [f EXCEPT !.pc = "await_timer",
                        !.log = Append(Append(@, Resp(o)), Wait(Backoff(f.attempt)))]
         ELSE [f EXCEPT !.pc = "returned", !.ret = o, !.log = Append(@, Resp(o))]

\* The step a frame takes when its setTimeout fires: continue the loop.
OnTimer_NeverGivesUp(f) ==
    [f EXCEPT !.pc = "await_fetch", !.log = Append(@, Req(f.url, f.opts))]
OnTimer(f) ==
    IF f.attempt + 1 <= f.max
    THEN [f EXCEPT !.attempt = @ + 1, !.pc = "await_fetch",
                   !.log = Append(@, Req(f.url, f.opts))]
    ELSE [f EXCEPT !.attempt = @ + 1, !.pc = "await_last",
                   !.log = Append(@, Req(f.url, f.opts))]

Pending(f) == f.pc \in {"await_fetch", "await_last"}
Settled(f) == f.pc \in {"returned", "threw"}

\* Calls whose continuation is a handler step of its own (not a batch task).
Sequential(c) == Kind(c) # "detail"

\* The upstream answers the pending request of a sequential call.
Respond(c, o) ==
    /\ UNCHANGED unitVars
    /\ c \in DOMAIN active
    /\ Sequential(c)
    /\ Pending(active[c])
    /\ active' = [active EXCEPT ![c] = OnResponse(@, o)]
    /\ UNCHANGED <<handler, body, pc, res, tasks, issued, resp>>

\* The backoff timer of a call fires.
Timer(c) ==
    /\ UNCHANGED unitVars
    /\ c \in DOMAIN active
    /\ active[c].pc = "await_timer"
    /\ active' = [active EXCEPT ![c] = OnTimer(@)]
    /\ UNCHANGED <<handler, body, pc, res, tasks, issued, resp>>

-----------------------------------------------------------------------------
\* fetchWithRetry called on its own.

Urls == {Call("account", 0), Call("summoner", 0)}
Options == {"X-Riot-Token", "none"}
Direct == Call("direct", 0)

InitRetry ==
    /\ handler = "direct"
    /\ body = [f1 |-> "x", f2 |-> "x"]
    /\ pc = "await"
    /\ \E url \in Urls, opts \in Options, m \in 1..DefaultMaxRetries :
          active = (Direct :> fetchWithRetry(url, opts, m))
    /\ res = EmptyMap
    /\ tasks = EmptyMap
    /\ issued = {Direct}
    /\ resp = <<>>
    /\ NoUnit

NextRetry ==
    \/ \E o \in Upstream(Direct) : Respond(Direct, o)
    \/ Timer(Direct)

SpecRetry == InitRetry /\ [][NextRetry]_vars

-----------------------------------------------------------------------------
\* The three request handlers.

Token == "X-Riot-Token"
Account == Call("account", 0)
Summoner == Call("summoner", 0)
Mastery == Call("mastery", 0)
Ranked == Call("ranked", 0)
MatchIds == Call("matchIds", 0)
Match == Call("match", 1)
Timeline == Call("timeline", 1)
Detail(id) == Call("detail", id)

\* NextResponse.json({error: ...}, {status})
Error(status) == [status |-> status, payload |-> <<>>]
\* NextResponse.json(payload)
Success(payload) == [status |-> 200, payload |-> payload]

Range(s) == {s[i] : i \in DOMAIN s}
Without(f, c) == [k \in DOMAIN f \ {c} |-> f[k]]
With(f, c, v) == [k \in DOMAIN f \cup {c} |-> IF k = c THEN v ELSE f[k]]

Init ==
    /\ handler = "none"
    /\ body = [f1 |-> Missing, f2 |-> Missing]
    /\ pc = "idle"
    /\ active = EmptyMap
    /\ res = EmptyMap
    /\ tasks = EmptyMap
    /\ issued = {}
    /\ resp = <<>>
    /\ NoUnit

\* return NextResponse.json(...): the handler is finished.
Return(r) ==
    /\ resp' = Append(resp, r)
    /\ pc' = "done"

\* catch (err) { return NextResponse.json({error: "Internal server error"}, {status: 500}) }
Catch == Return(Error(500))

\* if (!gameName || !tagLine) / if (!matchId || !puuid)
InvalidBody(b) == Falsy(b.f1) \/ Falsy(b.f2)

\* The handler's locals once the Response of call c is bound to its variable.
Bind(c) == res' = With(res, c, active[c].ret)

\* The handler starts call c with frame f and suspends at the await named by next.
Await(c, f, next) ==
    /\ active' = [k \in {c} |-> f]
    /\ issued' = issued \cup {c}
    /\ pc' = next
    /\ UNCHANGED resp

\* The awaited call c has settled and the handler resumes.
Resumes(h, at, c) ==
    /\ handler = h
    /\ pc = at
    /\ c \in DOMAIN active
    /\ Settled(active[c])

\* ---- history (src/src/app/api/lol-history/route.ts, first handler) ----

\* POST of lol-history, up to the account lookup.
HistoryPOST(b) ==
    /\ UNCHANGED unitVars
    /\ pc = "idle"
    /\ handler' = "history"
    /\ body' = b
    /\ UNCHANGED <<res, tasks>>
    /\ IF InvalidBody(b)
       THEN Return(Error(400)) /\ UNCHANGED <<active, issued>>
       ELSE Await(Account, fetch(Account, Token), "account")

\* if (!accountRes.ok) return 404; otherwise fetch the match ids.
HistoryAccount_Continue ==
    /\ UNCHANGED unitVars
    /\ Resumes("history", "account", Account)
    /\ UNCHANGED <<handler, body, tasks>>
    /\ IF active[Account].pc = "threw"
       THEN Catch /\ active' = Without(active, Account) /\ UNCHANGED <<res, issued>>
       ELSE /\ Bind(Account)
            /\ Await(MatchIds, fetch(MatchIds, Token), "matchIds")
HistoryAccount ==
    /\ UNCHANGED unitVars
    /\ Resumes("history", "account", Account)
    /\ UNCHANGED <<handler, body, tasks>>
    /\ IF active[Account].pc = "threw"
       THEN Catch /\ active' = Without(active, Account) /\ UNCHANGED <<res, issued>>
       ELSE /\ Bind(Account)
            /\ IF ~Ok(active[Account].ret)
               THEN /\ Return(Error(404))
                    /\ active' = Without(active, Account)
                    /\ UNCHANGED issued
               ELSE Await(MatchIds, fetch(MatchIds, Token), "matchIds")

PendingTask == [st |-> "pending", value |-> NoMatch]

DetailCalls(ids) == {Detail(id) : id \in Range(ids)}

\* The batch Promise.all(ids.map(async id => ...)): the callbacks run up to
\* their first await, so every first request is sent; frames maps each call to
\* the frame its callback is suspended in.
StartBatch(ids, frames) ==
    /\ active' = frames
    /\ tasks' = [id \in Range(ids) |-> PendingTask]
    /\ issued' = issued \cup DetailCalls(ids)
    /\ pc' = "batch"
    /\ UNCHANGED resp

\* const matchRes = await fetch(`.../matches/${matchId}`, ...) for every id.
PlainBatch(ids) == [c \in DetailCalls(ids) |-> fetch(c, Token)]

\* if (!matchIdsRes.ok) return 500; otherwise fetch every match concurrently.
HistoryMatchIds_Status404 ==
    /\ UNCHANGED unitVars
    /\ Resumes("history", "matchIds", MatchIds)
    /\ UNCHANGED <<handler, body>>
    /\ IF active[MatchIds].pc = "threw"
       THEN /\ Catch
            /\ active' = Without(active, MatchIds)
            /\ UNCHANGED <<res, issued, tasks>>
       ELSE /\ Bind(MatchIds)
            /\ IF ~Ok(active[MatchIds].ret)
               THEN /\ Return(Error(404))
                    /\ active' = Without(active, MatchIds)
                    /\ UNCHANGED <<issued, tasks>>
               ELSE LET ids == active[MatchIds].ret.body.ids
                    IN  StartBatch(ids, PlainBatch(ids))
HistoryMatchIds ==
    /\ UNCHANGED unitVars
    /\ Resumes("history", "matchIds", MatchIds)
    /\ UNCHANGED <<handler, body>>
    /\ IF active[MatchIds].pc = "threw"
       THEN /\ Catch
            /\ active' = Without(active, MatchIds)
            /\ UNCHANGED <<res, issued, tasks>>
       ELSE /\ Bind(MatchIds)
            /\ IF ~Ok(active[MatchIds].ret)
               THEN /\ Return(Error(500))
                    /\ active' = Without(active, MatchIds)
                    /\ UNCHANGED <<issued, tasks>>
               ELSE LET ids == active[MatchIds].ret.body.ids
                    IN  StartBatch(ids, PlainBatch(ids))

\* The async callback of the batch after its fetch settled:
\* if (!matchRes.ok) return null; return await matchRes.json();
TaskResult(f) ==
    IF f.pc = "threw" THEN [st |-> "rejected", value |-> NoMatch]
    ELSE IF ~Ok(f.ret) THEN [st |-> "fulfilled", value |-> NoMatch]
    ELSE [st |-> "fulfilled", value |-> f.ret.body.match]

\* The upstream answers a request of a batch task.  A rejected task rejects
\* Promise.all at once, which sends the awaiting handler to its catch block.
TaskRespond(c, o) ==
    /\ UNCHANGED unitVars
    /\ c \in DOMAIN active
    /\ Kind(c) = "detail"
    /\ Pending(active[c])
    /\ UNCHANGED <<handler, body, res, issued>>
    /\ LET f == OnResponse(active[c], o)
       IN  IF Settled(f)
           THEN /\ active' = Without(active, c)
                /\ tasks' = [tasks EXCEPT ![c[2]] = TaskResult(f)]
                /\ IF f.pc = "threw" /\ pc = "batch"
                   THEN Catch
                   ELSE UNCHANGED <<pc, resp>>
           ELSE /\ active' = [active EXCEPT ![c] = f]
                /\ UNCHANGED <<tasks, pc, resp>>

\* matchDetails: the values Promise.all resolves to, in the order of ids.
MatchDetails(ids) == [i \in 1..Len(ids) |-> tasks[ids[i]].value]
\* .filter(Boolean)
Truthy(m) == m # NoMatch
AllFulfilled == \A id \in DOMAIN tasks : tasks[id].st = "fulfilled"

\* One entry of matches; participant.win throws when the player is not found.
MatchSummary(m) == [matchId |-> m.matchId]

\* matchDetails.filter(Boolean).map(...), then the response.
HistoryMatches(kept) == [i \in 1..Len(kept) |-> MatchSummary(kept[i])]

HistoryBuild_SkipsAbsent ==
    /\ UNCHANGED unitVars
    /\ handler = "history"
    /\ pc = "batch"
    /\ AllFulfilled
    /\ UNCHANGED <<handler, body, active, res, tasks, issued>>
    /\ LET kept == SelectSeq(MatchDetails(res[MatchIds].body.ids), Truthy)
       IN  Return(Success(HistoryMatches(SelectSeq(kept, LAMBDA m : m.hasPlayer))))
HistoryBuild ==
    /\ UNCHANGED unitVars
    /\ handler = "history"
    /\ pc = "batch"
    /\ AllFulfilled
    /\ UNCHANGED <<handler, body, active, res, tasks, issued>>
    /\ LET kept == SelectSeq(MatchDetails(res[MatchIds].body.ids), Truthy)
       IN  IF \E i \in DOMAIN kept : ~kept[i].hasPlayer
           THEN Catch
           ELSE Return(Success(HistoryMatches(kept)))

\* ---- player-stats (src/src/app/api/lol-player-stats/route.ts) ----

Retry(c) == fetchWithRetry(c, Token, DefaultMaxRetries)

\* POST of lol-player-stats, up to the account lookup.
StatsPOST(b) ==
    /\ UNCHANGED unitVars
    /\ pc = "idle"
    /\ handler' = "stats"
    /\ body' = b
    /\ UNCHANGED <<res, tasks>>
    /\ IF InvalidBody(b)
       THEN Return(Error(400)) /\ UNCHANGED <<active, issued>>
       ELSE Await(Account, Retry(Account), "account")

\* if (!accountRes.ok) return 429 or 404; otherwise look the summoner up.
StatsAccount ==
    /\ UNCHANGED unitVars
    /\ Resumes("stats", "account", Account)
    /\ UNCHANGED <<handler, body, tasks>>
    /\ IF active[Account].pc = "threw"
       THEN Catch /\ active' = Without(active, Account) /\ UNCHANGED <<res, issued>>
       ELSE /\ Bind(Account)
            /\ IF ~Ok(active[Account].ret)
               THEN /\ Return(Error(IF active[Account].ret.status = 429
                                    THEN 429 ELSE 404))
                    /\ active' = Without(active, Account)
                    /\ UNCHANGED issued
               ELSE Await(Summoner, Retry(Summoner), "summoner")

\* if (!summonerRes.ok) return 404; otherwise fetch the mastery list.
StatsSummoner ==
    /\ UNCHANGED unitVars
    /\ Resumes("stats", "summoner", Summoner)
    /\ UNCHANGED <<handler, body, tasks>>
    /\ IF active[Summoner].pc = "threw"
       THEN Catch /\ active' = Without(active, Summoner) /\ UNCHANGED <<res, issued>>
       ELSE /\ Bind(Summoner)
            /\ IF ~Ok(active[Summoner].ret)
               THEN /\ Return(Error(404))
                    /\ active' = Without(active, Summoner)
                    /\ UNCHANGED issued
               ELSE Await(Mastery, Retry(Mastery), "mastery")

\* The mastery response is kept whatever its status; fetch the ranked entries.
StatsMastery ==
    /\ UNCHANGED unitVars
    /\ Resumes("stats", "mastery", Mastery)
    /\ UNCHANGED <<handler, body, tasks>>
    /\ IF active[Mastery].pc = "threw"
       THEN Catch /\ active' = Without(active, Mastery) /\ UNCHANGED <<res, issued>>
       ELSE /\ Bind(Mastery)
            /\ Await(Ranked, Retry(Ranked), "ranked")

\* The ranked response is kept whatever its status; fetch the match-id sample.
StatsRanked ==
    /\ UNCHANGED unitVars
    /\ Resumes("stats", "ranked", Ranked)
    /\ UNCHANGED <<handler, body, tasks>>
    /\ IF active[Ranked].pc = "threw"
       THEN Catch /\ active' = Without(active, Ranked) /\ UNCHANGED <<res, issued>>
       ELSE /\ Bind(Ranked)
            /\ Await(MatchIds, Retry(MatchIds), "matchIds")

\* matchIds.slice(0, 10)
Slice(ids, n) == SubSeq(ids, 1, IF Len(ids) < n THEN Len(ids) ELSE n)

\* let masteryData = []; if (masteryRes.ok) masteryData = await masteryRes.json()
DataOf(c) == IF Ok(res[c]) THEN res[c].body.data ELSE <<>>

\* The matches folded into championStats: fetched, and containing the player.
WinrateSample(kept) == SelectSeq(kept, LAMBDA m : m.hasPlayer)

\* The body of the success response; sample is the list of folded matches.
StatsPayload(sample) ==
    [mastery |-> DataOf(Mastery), ranked |-> DataOf(Ranked),
     winrates |-> [i \in 1..Len(sample) |-> sample[i].matchId]]

\* if (matchIdsRes.ok) fetch the first 10 matches concurrently;
\* otherwise answer with empty winrates.
StatsMatchIds ==
    /\ UNCHANGED unitVars
    /\ Resumes("stats", "matchIds", MatchIds)
    /\ UNCHANGED <<handler, body>>
    /\ IF active[MatchIds].pc = "threw"
       THEN /\ Catch
            /\ active' = Without(active, MatchIds)
            /\ UNCHANGED <<res, issued, tasks>>
       ELSE /\ Bind(MatchIds)
            /\ IF ~Ok(active[MatchIds].ret)
               THEN /\ resp' = Append(resp, Success(
                            [mastery |-> DataOf(Mastery), ranked |-> DataOf(Ranked),
                             winrates |-> <<>>]))
                    /\ pc' = "done"
                    /\ active' = Without(active, MatchIds)
                    /\ UNCHANGED <<issued, tasks>>
               ELSE LET ids == Slice(active[MatchIds].ret.body.ids, SampleSize)
                    IN  StartBatch(ids, [c \in DetailCalls(ids) |-> Retry(c)])

\* championStats and winrateData over the fetched matches, then the response.
StatsBuild ==
    /\ UNCHANGED unitVars
    /\ handler = "stats"
    /\ pc = "batch"
    /\ AllFulfilled
    /\ UNCHANGED <<handler, body, active, res, tasks, issued>>
    /\ LET ids == Slice(res[MatchIds].body.ids, SampleSize)
           kept == SelectSeq(MatchDetails(ids), Truthy)
       IN  Return(Success(StatsPayload(WinrateSample(kept))))

\* ---- match-details (src/src/app/api/lol-history/route.ts, second handler) ----

\* POST of lol-match-details, up to the match fetch.
DetailsPOST(b) ==
    /\ UNCHANGED unitVars
    /\ pc = "idle"
    /\ handler' = "details"
    /\ body' = b
    /\ UNCHANGED <<res, tasks>>
    /\ IF InvalidBody(b)
       THEN Return(Error(400)) /\ UNCHANGED <<active, issued>>
       ELSE Await(Match, fetch(Match, Token), "match")

\* if (!matchRes.ok) return 404; otherwise fetch the timeline.
DetailsMatch ==
    /\ UNCHANGED unitVars
    /\ Resumes("details", "match", Match)
    /\ UNCHANGED <<handler, body, tasks>>
    /\ IF active[Match].pc = "threw"
       THEN Catch /\ active' = Without(active, Match) /\ UNCHANGED <<res, issued>>
       ELSE /\ Bind(Match)
            /\ IF ~Ok(active[Match].ret)
               THEN /\ Return(Error(404))
                    /\ active' = Without(active, Match)
                    /\ UNCHANGED issued
               ELSE Await(Timeline, fetch(Timeline, Token), "timeline")

\* timelineData stays null unless timelineRes.ok; 404 when the player is not a
\* participant of the match; otherwise the details: playerStats, teamObjectives
\* and matchInfo are read from the match alone, playerTimeline from the timeline.
DetailsTimeline_RequiresTimeline ==
    /\ UNCHANGED unitVars
    /\ Resumes("details", "timeline", Timeline)
    /\ UNCHANGED <<handler, body, tasks, issued>>
    /\ active' = Without(active, Timeline)
    /\ IF active[Timeline].pc = "threw"
       THEN Catch /\ UNCHANGED res
       ELSE /\ Bind(Timeline)
            /\ IF ~res[Match].body.match.hasPlayer \/ ~Ok(active[Timeline].ret)
               THEN Return(Error(404))
               ELSE Return(Success(
                        [playerStats |-> res[Match].body.match.matchId,
                         playerTimeline |-> IF Ok(active[Timeline].ret)
                                            THEN active[Timeline].ret.body.data
                                            ELSE <<>>,
                         teamObjectives |-> res[Match].body.match.matchId,
                         matchInfo |-> res[Match].body.match.matchId]))
DetailsTimeline ==
    /\ UNCHANGED unitVars
    /\ Resumes("details", "timeline", Timeline)
    /\ UNCHANGED <<handler, body, tasks, issued>>
    /\ active' = Without(active, Timeline)
    /\ IF active[Timeline].pc = "threw"
       THEN Catch /\ UNCHANGED res
       ELSE /\ Bind(Timeline)
            /\ IF ~res[Match].body.match.hasPlayer
               THEN Return(Error(404))
               ELSE Return(Success(
                        [playerStats |-> res[Match].body.match.matchId,
                         playerTimeline |-> IF Ok(active[Timeline].ret)
                                            THEN active[Timeline].ret.body.data
                                            ELSE <<>>,
                         teamObjectives |-> res[Match].body.match.matchId,
                         matchInfo |-> res[Match].body.match.matchId]))

Next ==
    \/ \E b \in Bodies : HistoryPOST(b)
    \/ \E b \in Bodies : StatsPOST(b)
    \/ \E b \in Bodies : DetailsPOST(b)
    \/ \E c \in DOMAIN active : \E o \in Upstream(c) : Respond(c, o)
    \/ \E c \in DOMAIN active : \E o \in Upstream(c) : TaskRespond(c, o)
    \/ \E c \in DOMAIN active : Timer(c)
    \/ HistoryAccount
    \/ HistoryMatchIds
    \/ HistoryBuild
    \/ StatsAccount
    \/ StatsSummoner
    \/ StatsMastery
    \/ StatsRanked
    \/ StatsMatchIds
    \/ StatsBuild
    \/ DetailsMatch
    \/ DetailsTimeline

Spec == Init /\ [][Next]_vars

\* The steps that do not start an invocation: upstream answers, timers and the
\* continuations of the handlers.
Progress ==
    \/ \E c \in DOMAIN active : \E o \in Upstream(c) : Respond(c, o)
    \/ \E c \in DOMAIN active : \E o \in Upstream(c) : TaskRespond(c, o)
    \/ \E c \in DOMAIN active : Timer(c)
    \/ HistoryAccount
    \/ HistoryMatchIds
    \/ HistoryBuild
    \/ StatsAccount
    \/ StatsSummoner
    \/ StatsMastery
    \/ StatsRanked
    \/ StatsMatchIds
    \/ StatsBuild
    \/ DetailsMatch
    \/ DetailsTimeline

\* Every upstream request is answered, every timer fires and the event loop
\* runs every continuation that is ready; whether a request arrives is left open.
FairSpec == Spec /\ WF_vars(Progress)

-----------------------------------------------------------------------------
\* Properties of fetchWithRetry (checked under SpecRetry).

RetryFrames == {active[c] : c \in {d \in DOMAIN active : active[d].kind = "retry"}}
Requests(f) == {i \in DOMAIN f.log : f.log[i].t = "req"}
Responses(f) == {i \in DOMAIN f.log : f.log[i].t = "resp"}
Waits(f) == {i \in DOMAIN f.log : f.log[i].t = "wait"}
RateLimited(f) == {i \in Responses(f) : f.log[i].r.status = 429}
RECURSIVE WaitSum(_, _)
WaitSum(log, n) ==
    IF n = 0 THEN 0
    ELSE WaitSum(log, n - 1) + (IF log[n].t = "wait" THEN log[n].ms ELSE 0)
TotalWait(f) == WaitSum(f.log, Len(f.log))

\* C1: a call with the default maximum sends at most 3 requests, and when every
\* request is answered 429 the caller gets the 429 result after exactly 3
\* requests and a total wait of 2s + 4s + 6s.
C1_AtMostThreeRequests ==
    \A f \in RetryFrames :
        f.max = DefaultMaxRetries =>
            /\ Cardinality(Requests(f)) <= 3
            /\ (f.pc = "returned" /\ Responses(f) = RateLimited(f)) =>
                  /\ f.ret.status = 429
                  /\ Cardinality(Requests(f)) = 3
                  /\ TotalWait(f) = 2000 + 4000 + 6000

\* C2: when all counted attempts are answered 429, the response returned is the
\* one of the final counted attempt (status 429); no response of a request
\* beyond the maximum attempt count is returned.
C2_ReturnsLastCountedResponse ==
    \A f \in RetryFrames :
        (f.pc = "returned" /\ Cardinality(RateLimited(f)) >= f.max) =>
            /\ f.ret.status = 429
            /\ Cardinality(Requests(f)) <= f.max

\* C3: the first response whose status is not 429 ends the call: it is the last
\* event of the call (no request, no wait after it) and it is the value returned.
C3_FirstNon429Returned ==
    \A f \in RetryFrames :
        \A i \in Responses(f) :
            f.log[i].r.status # 429 =>
                /\ i = Len(f.log)
                /\ f.pc = "returned"
                /\ f.ret = f.log[i].r

C3_Witness ==
    \E f \in RetryFrames :
        /\ f.pc = "returned"
        /\ f.ret.status = 404
        /\ Cardinality(RateLimited(f)) = 2
        /\ Cardinality(Requests(f)) = 3

-----------------------------------------------------------------------------
\* Properties of the handlers (checked under Spec).

Handlers == {"history", "stats", "details"}
DetailsIssued == {c \in issued : Kind(c) = "detail"}

\* C5: in each of the three handlers a missing or empty required field gives
\* status 400, and no upstream request has been sent.
C5_InvalidRequestNoUpstream ==
    (handler \in Handlers
        /\ (body.f1 \in {Missing, Empty} \/ body.f2 \in {Missing, Empty})) =>
        /\ pc = "done"
        /\ Len(resp) = 1
        /\ resp[1].status = 400
        /\ issued = {}
        /\ DOMAIN active = {}

C5_Witness ==
    /\ handler = "details"
    /\ body.f1 = "x"
    /\ body.f2 = Empty
    /\ Len(resp) = 1
    /\ resp[1].status = 400

\* C6: in the history handler a non-success status of the account lookup gives
\* exactly one response, with status 404, and the account lookup is the only
\* upstream request that was sent.
C6_AccountFailureStops ==
    (handler = "history" /\ Account \in DOMAIN res /\ res[Account].status # 200) =>
        /\ pc = "done"
        /\ Len(resp) = 1
        /\ resp[1].status = 404
        /\ issued = {Account}
        /\ DOMAIN active = {}

C6_Witness ==
    /\ handler = "history"
    /\ Account \in DOMAIN res
    /\ res[Account].status = 404
    /\ pc = "done"

\* C7 as claimed: in the history handler a non-success status of the match-id
\* list fetch gives status 404 and no match detail request is sent.
C7_MatchIdsFailureIs404 ==
    (handler = "history" /\ MatchIds \in DOMAIN res /\ res[MatchIds].status # 200) =>
        /\ pc = "done"
        /\ Len(resp) = 1
        /\ resp[1].status = 404
        /\ DetailsIssued = {}

\* C7 as amended: in the history handler a non-success status of the match-id
\* list fetch gives status 500 and no match detail request is sent.
C7_MatchIdsFailureIs500 ==
    (handler = "history" /\ MatchIds \in DOMAIN res /\ res[MatchIds].status # 200) =>
        /\ pc = "done"
        /\ Len(resp) = 1
        /\ resp[1].status = 500
        /\ issued = {Account, MatchIds}
        /\ DOMAIN active = {}

C7_Witness ==
    /\ handler = "history"
    /\ MatchIds \in DOMAIN res
    /\ res[MatchIds].status = 404
    /\ Ok(res[Account])
    /\ pc = "done"

\* C8: in the history handler, when the account lookup and the match-id list
\* succeed (and every detail fetch got an answer), the response is a success
\* listing exactly the matches whose detail fetch succeeded, in the order of
\* the match-id list.
C8_PartialSuccessInOrder ==
    (handler = "history" /\ pc = "done" /\ MatchIds \in DOMAIN res
        /\ Ok(res[MatchIds])
        /\ \A id \in DOMAIN tasks : tasks[id].st = "fulfilled") =>
        LET ids == res[MatchIds].body.ids
            fetched == SelectSeq(ids, LAMBDA id : tasks[id].value.matchId = id)
        IN  /\ Len(resp) = 1
            /\ resp[1].status = 200
            /\ resp[1].payload = [i \in 1..Len(fetched) |-> [matchId |-> fetched[i]]]

\* C9: every upstream call of the three handlers goes through the retry policy:
\* a call never hands a 429 answer to its handler without having retried.
C9_RateLimitRetried ==
    handler \in Handlers =>
        \A c \in DOMAIN active :
            (active[c].pc = "returned" /\ active[c].ret.status = 429) =>
                Cardinality(Requests(active[c])) > 1

\* C10: in the player-stats handler a call that is still answered 429 when the
\* retry policy is exhausted makes the handler respond with status 429.
C10_PersistentRateLimitSurfaced ==
    (handler = "stats" /\ pc = "done"
        /\ \E c \in DOMAIN res : res[c].status = 429) =>
        /\ Len(resp) = 1
        /\ resp[1].status = 429

\* C11: in the player-stats handler, once the account and summoner lookups
\* have succeeded, the response is a success whichever of the mastery, ranked
\* and match-id fetches fail; a part whose fetch failed is an empty list and
\* the other parts carry the fetched data.
C11_OptionalFetchesBestEffort ==
    (handler = "stats" /\ pc = "done"
        /\ {Account, Summoner} \subseteq DOMAIN res
        /\ res[Account].status = 200
        /\ res[Summoner].status = 200
        /\ \A id \in DOMAIN tasks : tasks[id].st = "fulfilled") =>
        /\ Len(resp) = 1
        /\ resp[1].status = 200
        /\ resp[1].payload.mastery =
              (IF res[Mastery].status = 200 THEN res[Mastery].body.data ELSE <<>>)
        /\ resp[1].payload.ranked =
              (IF res[Ranked].status = 200 THEN res[Ranked].body.data ELSE <<>>)
        /\ resp[1].payload.winrates =
              (IF res[MatchIds].status = 200
               THEN SelectSeq(res[MatchIds].body.ids,
                              LAMBDA id : tasks[id].value.matchId = id
                                          /\ tasks[id].value.hasPlayer)
               ELSE <<>>)

-----------------------------------------------------------------------------
\* C17: in the match-details handler, when the match fetch succeeds, the player
\* is in the match and the timeline fetch returns a non-success status, the
\* response is a success whose player timeline is empty and whose player
\* statistics, team objectives and match info are those of the match.
C17_TimelineFailureTolerated ==
    (handler = "details" /\ pc = "done"
        /\ {Match, Timeline} \subseteq DOMAIN res
        /\ res[Match].status = 200
        /\ res[Match].body.match.hasPlayer
        /\ res[Timeline].status # 200) =>
        /\ Len(resp) = 1
        /\ resp[1].status = 200
        /\ resp[1].payload.playerTimeline = <<>>
        /\ resp[1].payload.playerStats = res[Match].body.match.matchId
        /\ resp[1].payload.teamObjectives = res[Match].body.match.matchId
        /\ resp[1].payload.matchInfo = res[Match].body.match.matchId

C17_Witness ==
    /\ handler = "details"
    /\ pc = "done"
    /\ {Match, Timeline} \subseteq DOMAIN res
    /\ res[Match].status = 200
    /\ res[Match].body.match.hasPlayer
    /\ res[Timeline].status = 404
    /\ resp[1].status = 200
    /\ resp[1].payload.playerTimeline = <<>>

\* C18: the match-details handler answers 404, without player statistics, when
\* the match fetch is not successful, and then the timeline is never
\* requested; it also answers 404, without player statistics, when the match
\* was fetched but the requested player is not among its participants.
C18_MatchOrPlayerNotFound ==
    (handler = "details" /\ Match \in DOMAIN res) =>
        /\ res[Match].status # 200 =>
              /\ pc = "done"
              /\ resp = <<Error(404)>>
              /\ Timeline \notin issued
        /\ (res[Match].status = 200 /\ ~res[Match].body.match.hasPlayer /\ pc = "done") =>
              resp = <<Error(404)>>

\* C22: the player-stats handler requests match detail for the first 10
\* identifiers of the sample and for no other, all of them at once when the
\* batch starts; a detail fetch that fails neither stops the other fetches nor
\* takes their fetched matches out of the aggregate of the response.
C22_SampleBatchBestEffort ==
    (handler = "stats" /\ MatchIds \in DOMAIN res /\ Ok(res[MatchIds])) =>
        LET ids == res[MatchIds].body.ids
            first == SubSeq(ids, 1, IF Len(ids) < 10 THEN Len(ids) ELSE 10)
            folded == SelectSeq(first,
                          LAMBDA id : /\ tasks[id].st = "fulfilled"
                                      /\ tasks[id].value.matchId = id
                                      /\ tasks[id].value.hasPlayer)
        IN  /\ DetailsIssued = {Detail(id) : id \in Range(first)}
            /\ Cardinality(DetailsIssued) <= 10
            /\ DOMAIN tasks = Range(first)
            /\ \A id \in Range(first) :
                  tasks[id].st = "pending" <=> Detail(id) \in DOMAIN active
            /\ (/\ pc = "done"
                /\ \A id \in Range(first) : tasks[id].st # "pending"
                /\ folded # <<>>) =>
                  /\ Len(resp) = 1
                  /\ resp[1].status = 200
                  /\ resp[1].payload.winrates = folded

C27_AbsentPlayerFailsHistory ==
    (handler = "history" /\ pc = "done"
        /\ \E id \in DOMAIN tasks :
              /\ tasks[id].st = "fulfilled"
              /\ tasks[id].value.matchId = id
              /\ ~tasks[id].value.hasPlayer) =>
        /\ Len(resp) = 1
        /\ resp[1].status = 500
        /\ resp[1].payload = <<>>

C27_Witness ==
    /\ handler = "history"
    /\ pc = "done"
    /\ DOMAIN tasks = {1, 2}
    /\ \A id \in {1, 2} : tasks[id].st = "fulfilled" /\ tasks[id].value.matchId = id
    /\ tasks[1].value.hasPlayer
    /\ ~tasks[2].value.hasPlayer
    /\ resp = <<Error(500)>>

-----------------------------------------------------------------------------
\* Units applied on their own: the argument is drawn in the initial state and
\* one action applies the function.

\* What a unit leaves alone.
handlerVars == <<handler, body, active, res, tasks, issued, resp>>

UnitInit(name) ==
    /\ handler = name
    /\ body = [f1 |-> "x", f2 |-> "x"]
    /\ pc = "input"
    /\ active = EmptyMap
    /\ res = EmptyMap
    /\ tasks = EmptyMap
    /\ issued = {}
    /\ resp = <<>>
    /\ out = <<>>

\* ---- the two team lists of a match summary (history handler) ----

\* const roleOrder = ["top", "jungle", "mid", "adc", "support"]
roleOrder == <<"top", "jungle", "mid", "adc", "support">>

\* Array.prototype.indexOf: the 0-based index of the first occurrence, or -1.
IndexOf(s, x) ==
    IF \E i \in DOMAIN s : s[i] = x
    THEN (CHOOSE i \in DOMAIN s : s[i] = x /\ \A j \in DOMAIN s : s[j] = x => i <= j) - 1
    ELSE -1

\* getRole: teamPosition first, then lane and role, then "unknown".
getRole(p) ==
    CASE p.teamPosition = "TOP" -> "top"
      [] p.teamPosition = "JUNGLE" -> "jungle"
      [] p.teamPosition = "MIDDLE" -> "mid"
      [] p.teamPosition = "BOTTOM" -> "adc"
      [] p.teamPosition = "UTILITY" -> "support"
      [] OTHER ->
            CASE p.lane = "TOP" -> "top"
              [] p.lane = "JUNGLE" -> "jungle"
              [] p.lane = "MIDDLE" -> "mid"
              [] p.lane = "BOTTOM" /\ p.role = "CARRY" -> "adc"
              [] p.lane = "BOTTOM" /\ p.role = "SUPPORT" -> "support"
              [] p.lane = "UTILITY" -> "support"
              [] OTHER -> "unknown"

\* allPlayers: one view per participant, in upstream order; pid is the
\* participant's position in the upstream list.
allPlayers(participants) ==
    [i \in 1..Len(participants) |->
        [pid |-> i, teamId |-> participants[i].teamId,
         role |-> getRole(participants[i])]]

\* allPlayers.filter(p => p.teamId === 100) and ... === 200
blueTeam(players) == SelectSeq(players, LAMBDA p : p.teamId = 100)
redTeam(players) == SelectSeq(players, LAMBDA p : p.teamId = 200)

\* The comparator: roleOrder.indexOf(a.role) - roleOrder.indexOf(b.role)
sortByRole(a, b) == IndexOf(roleOrder, a.role) - IndexOf(roleOrder, b.role)

\* One step of a stable sort: x goes behind every element that is not after it.
InsertSorted_BeforeEquals(sorted, x) ==
    LET k == Cardinality({i \in DOMAIN sorted : sortByRole(sorted[i], x) < 0})
    IN  SubSeq(sorted, 1, k) \o <<x>> \o SubSeq(sorted, k + 1, Len(sorted))
InsertSorted(sorted, x) ==
    LET k == Cardinality({i \in DOMAIN sorted : sortByRole(sorted[i], x) <= 0})
    IN  SubSeq(sorted, 1, k) \o <<x>> \o SubSeq(sorted, k + 1, Len(sorted))

\* team.sort(sortByRole): Array.prototype.sort is stable.
RECURSIVE SortTeam(_)
SortTeam(team) ==
    IF team = <<>> THEN <<>>
    ELSE InsertSorted(SortTeam(SubSeq(team, 1, Len(team) - 1)), team[Len(team)])

\* The participants the upstream can list.
TeamIds == {100, 200, 300}
Positions ==
    {[teamPosition |-> "TOP", lane |-> "NONE", role |-> "NONE"],
     [teamPosition |-> "JUNGLE", lane |-> "NONE", role |-> "NONE"],
     [teamPosition |-> "MIDDLE", lane |-> "NONE", role |-> "NONE"],
     [teamPosition |-> "UTILITY", lane |-> "NONE", role |-> "NONE"],
     [teamPosition |-> "", lane |-> "BOTTOM", role |-> "CARRY"],
     [teamPosition |-> "", lane |-> "NONE", role |-> "NONE"]}
Participants ==
    {[teamId |-> t, teamPosition |-> q.teamPosition, lane |-> q.lane, role |-> q.role] :
        t \in TeamIds, q \in Positions}

InitTeams ==
    /\ UnitInit("teams")
    /\ championCache = NullCache
    /\ arg \in UNION {[1..n -> Participants] : n \in 0..MaxParticipants}

\* blueTeam and redTeam of the summary of the match whose participants are arg.
BuildTeams ==
    /\ handler = "teams"
    /\ pc = "input"
    /\ pc' = "output"
    /\ out' = [blueTeam |-> SortTeam(blueTeam(allPlayers(arg))),
               redTeam |-> SortTeam(redTeam(allPlayers(arg)))]
    /\ UNCHANGED <<handlerVars, arg, championCache>>

NextTeams == BuildTeams

SpecTeams == InitTeams /\ [][NextTeams]_vars

\* C12: the two team lists together hold every participant of the match
\* exactly once, each in the list of its team identifier, whatever team
\* identifiers the upstream supplies.
C12_TeamsPartitionParticipants ==
    (handler = "teams" /\ pc = "output") =>
        /\ Len(out.blueTeam) + Len(out.redTeam) = Len(arg)
        /\ \A i \in DOMAIN arg :
              Cardinality({j \in DOMAIN out.blueTeam : out.blueTeam[j].pid = i})
              + Cardinality({j \in DOMAIN out.redTeam : out.redTeam[j].pid = i}) = 1
        /\ \A j \in DOMAIN out.blueTeam : arg[out.blueTeam[j].pid].teamId = 100
        /\ \A j \in DOMAIN out.redTeam : arg[out.redTeam[j].pid].teamId = 200

\* The place of a role in the fixed order, unknown last.
RoleRank(r) ==
    CASE r = "top" -> 1 [] r = "jungle" -> 2 [] r = "mid" -> 3
      [] r = "adc" -> 4 [] r = "support" -> 5 [] OTHER -> 6

\* C13: each team list is in the order top, jungle, mid, adc, support, and
\* every participant of unknown role comes after all those of a known role.
C13_RoleOrderUnknownLast ==
    (handler = "teams" /\ pc = "output") =>
        \A team \in {out.blueTeam, out.redTeam} :
            \A i, j \in DOMAIN team :
                i < j => RoleRank(team[i].role) <= RoleRank(team[j].role)

\* The positions in arg of the participants of team t, in upstream order.
TeamInput(t) == SelectSeq([i \in DOMAIN arg |-> i], LAMBDA i : arg[i].teamId = t)
RolesOf(team) == [i \in DOMAIN team |-> team[i].role]

\* C14: the role sort is a stable permutation: a sorted team holds exactly the
\* participants of that team, participants of the same role keep their
\* upstream order, and [support, top, jungle] becomes [top, jungle, support].
C14_SortStablePermutation ==
    (handler = "teams" /\ pc = "output") =>
        \A t \in {100, 200} :
            LET team == IF t = 100 THEN out.blueTeam ELSE out.redTeam
                input == TeamInput(t)
            IN  /\ Len(team) = Len(input)
                /\ {team[j].pid : j \in DOMAIN team} = Range(input)
                /\ \A j \in DOMAIN team : team[j].role = getRole(arg[team[j].pid])
                /\ \A i, j \in DOMAIN team :
                      (i < j /\ team[i].role = team[j].role) => team[i].pid < team[j].pid
                /\ [i \in DOMAIN input |-> getRole(arg[input[i]])]
                      = <<"support", "top", "jungle">>
                   => RolesOf(team) = <<"top", "jungle", "support">>

C14_Witness ==
    /\ handler = "teams"
    /\ pc = "output"
    /\ Len(arg) = 3
    /\ \A i \in DOMAIN arg : arg[i].teamId = 100
    /\ [i \in DOMAIN arg |-> getRole(arg[i])] = <<"support", "top", "jungle">>
    /\ RolesOf(out.blueTeam) = <<"top", "jungle", "support">>

\* ---- isRemake of a match summary (history handler) ----

isRemake_AtMostThreshold(info) ==
    \/ info.gameDuration <= RemakeThreshold
    \/ info.gameMode = "PRACTICETOOL"
    \/ info.gameType = "CUSTOM_GAME"
    \/ info.gameMode = "TUTORIAL"
isRemake(info) ==
    \/ info.gameDuration < RemakeThreshold
    \/ info.gameMode = "PRACTICETOOL"
    \/ info.gameType = "CUSTOM_GAME"
    \/ info.gameMode = "TUTORIAL"

Durations == {0, 179, 180, 181, 1800}
GameModes == {"CLASSIC", "ARAM", "PRACTICETOOL", "TUTORIAL"}
GameTypes == {"MATCHED_GAME", "CUSTOM_GAME"}

\* arg is match.info together with the requesting player's participant.win.
InitRemake ==
    /\ UnitInit("remake")
    /\ championCache = NullCache
    /\ arg \in [gameDuration : Durations, gameMode : GameModes,
                gameType : GameTypes, win : BOOLEAN]

\* The win and isRemake fields of the summary of the match arg.
BuildRemake ==
    /\ handler = "remake"
    /\ pc = "input"
    /\ pc' = "output"
    /\ out' = [win |-> arg.win, isRemake |-> isRemake(arg)]
    /\ UNCHANGED <<handlerVars, arg, championCache>>

NextRemake == BuildRemake

SpecRemake == InitRemake /\ [][NextRemake]_vars

\* C15: isRemake is true when the duration is below 180 seconds or the mode or
\* type is practice tool, custom game or tutorial, whatever the player's win
\* flag; it is false when the duration is at least 180 and none of those holds.
C15_IsRemake ==
    (handler = "remake" /\ pc = "output") =>
        out.isRemake =
            (\/ arg.gameDuration < 180
             \/ arg.gameMode \in {"PRACTICETOOL", "TUTORIAL"}
             \/ arg.gameType = "CUSTOM_GAME")

C15_Witness ==
    /\ handler = "remake"
    /\ pc = "output"
    /\ arg.gameDuration = 179
    /\ arg.gameMode = "CLASSIC"
    /\ arg.gameType = "MATCHED_GAME"
    /\ out.win
    /\ out.isRemake

\* ---- the champion aggregate (player-stats handler) ----

\* 10^n
RECURSIVE Pow10(_)
Pow10(n) == IF n = 0 THEN 1 ELSE 10 * Pow10(n - 1)

\* (num / den).toFixed(digits) for num >= 0 and den > 0: the decimal numeral
\* with that many fraction digits nearest to the quotient, the larger one on a
\* tie. The string "50.0" is [whole |-> 50, frac |-> 0, digits |-> 1].
ToFixed(num, den, digits) ==
    LET n == ((2 * num * Pow10(digits)) + den) \div (2 * den)
    IN  [whole |-> n \div Pow10(digits), frac |-> n % Pow10(digits), digits |-> digits]

\* Number(s) of such a numeral, in units of its last digit.
NumberOf(s) == (s.whole * Pow10(s.digits)) + s.frac

\* Math.round(num / den) for num >= 0 and den > 0: halves round up.
MathRound(num, den) == ((2 * num) + den) \div (2 * den)

\* One forEach step on championStats, kept as the rows of the object in
\* insertion order: create the champion's row if absent, then count the match.
AddMatch_AlwaysWin(stats, p) ==
    LET fresh == [champion |-> p.championName, wins |-> 0, losses |-> 0,
                  totalDamage |-> 0, totalGold |-> 0]
        rows == IF \E i \in DOMAIN stats : stats[i].champion = p.championName
                THEN stats ELSE Append(stats, fresh)
    IN  [i \in DOMAIN rows |->
            IF rows[i].champion # p.championName THEN rows[i]
            ELSE [champion |-> rows[i].champion,
                  wins |-> rows[i].wins + 1,
                  losses |-> rows[i].losses,
                  totalDamage |-> rows[i].totalDamage + p.totalDamageDealtToChampions,
                  totalGold |-> rows[i].totalGold + p.goldEarned]]
AddMatch(stats, p) ==
    LET fresh == [champion |-> p.championName, wins |-> 0, losses |-> 0,
                  totalDamage |-> 0, totalGold |-> 0]
        rows == IF \E i \in DOMAIN stats : stats[i].champion = p.championName
                THEN stats ELSE Append(stats, fresh)
    IN  [i \in DOMAIN rows |->
            IF rows[i].champion # p.championName THEN rows[i]
            ELSE [champion |-> rows[i].champion,
                  wins |-> rows[i].wins + (IF p.win THEN 1 ELSE 0),
                  losses |-> rows[i].losses + (IF p.win THEN 0 ELSE 1),
                  totalDamage |-> rows[i].totalDamage + p.totalDamageDealtToChampions,
                  totalGold |-> rows[i].totalGold + p.goldEarned]]

\* matchDetails.filter(Boolean).forEach(...): a null result and a match without
\* the player leave championStats as it is.
RECURSIVE championStats(_)
championStats_NoParticipantGuard(matchDetails) ==
    IF matchDetails = <<>> THEN <<>>
    ELSE LET before == championStats(SubSeq(matchDetails, 1, Len(matchDetails) - 1))
             m == matchDetails[Len(matchDetails)]
         IN  IF m.fetched THEN AddMatch(before, m) ELSE before
championStats(matchDetails) ==
    IF matchDetails = <<>> THEN <<>>
    ELSE LET before == championStats(SubSeq(matchDetails, 1, Len(matchDetails) - 1))
             m == matchDetails[Len(matchDetails)]
         IN  IF m.fetched /\ m.hasPlayer THEN AddMatch(before, m) ELSE before

\* Object.entries(championStats).map(...)
WinrateRow(stats) ==
    [champion |-> stats.champion,
     wins |-> stats.wins,
     losses |-> stats.losses,
     winrate |-> IF stats.wins + stats.losses > 0
                 THEN ToFixed(stats.wins * 100, stats.wins + stats.losses, 1)
                 ELSE [whole |-> 0, frac |-> 0, digits |-> 1],
     totalGames |-> stats.wins + stats.losses,
     avgDamage |-> MathRound(stats.totalDamage, stats.wins + stats.losses),
     avgGold |-> MathRound(stats.totalGold, stats.wins + stats.losses)]

\* .sort((a, b) => Number(b.winrate) - Number(a.winrate)), a stable sort.
InsertByWinrate_BeforeEquals(sorted, x) ==
    LET k == Cardinality({i \in DOMAIN sorted :
                            NumberOf(x.winrate) - NumberOf(sorted[i].winrate) < 0})
    IN  SubSeq(sorted, 1, k) \o <<x>> \o SubSeq(sorted, k + 1, Len(sorted))
InsertByWinrate(sorted, x) ==
    LET k == Cardinality({i \in DOMAIN sorted :
                            NumberOf(x.winrate) - NumberOf(sorted[i].winrate) <= 0})
    IN  SubSeq(sorted, 1, k) \o <<x>> \o SubSeq(sorted, k + 1, Len(sorted))

RECURSIVE SortByWinrate(_)
SortByWinrate(rows) ==
    IF rows = <<>> THEN <<>>
    ELSE InsertByWinrate(SortByWinrate(SubSeq(rows, 1, Len(rows) - 1)), rows[Len(rows)])

winrateData(matchDetails) ==
    LET stats == championStats(matchDetails)
    IN  SortByWinrate([i \in DOMAIN stats |-> WinrateRow(stats[i])])

\* The results of the detail fetches: null, a match without the player, or a
\* match with the player's participant.
NullResult ==
    [fetched |-> FALSE, hasPlayer |-> FALSE, championName |-> "", win |-> FALSE,
     totalDamageDealtToChampions |-> 0, goldEarned |-> 0]
PlayerAbsent == [NullResult EXCEPT !.fetched = TRUE]
Earnings ==
    {[dmg |-> 20000, gold |-> 10000], [dmg |-> 10000, gold |-> 8000],
     [dmg |-> 10001, gold |-> 8001]}
Played ==
    {[fetched |-> TRUE, hasPlayer |-> TRUE, championName |-> c, win |-> w,
      totalDamageDealtToChampions |-> e.dmg, goldEarned |-> e.gold] :
        c \in {"Ahri", "Zed"}, w \in BOOLEAN, e \in Earnings}
DetailResults == {NullResult, PlayerAbsent} \cup Played

\* The longest sample the slice admits, every result the same.
FullSamples == {[i \in 1..SampleSize |-> e] : e \in DetailResults}

InitAggregate ==
    /\ UnitInit("aggregate")
    /\ championCache = NullCache
    /\ arg \in UNION {[1..n -> DetailResults] : n \in 0..MaxSample} \cup FullSamples

BuildWinrates ==
    /\ handler = "aggregate"
    /\ pc = "input"
    /\ pc' = "output"
    /\ out' = winrateData(arg)
    /\ UNCHANGED <<handlerVars, arg, championCache>>

NextAggregate == BuildWinrates

SpecAggregate == InitAggregate /\ [][NextAggregate]_vars

RECURSIVE SumOf(_, _)
SumOf(f, S) ==
    IF S = {} THEN 0
    ELSE LET x == CHOOSE y \in S : TRUE IN f[x] + SumOf(f, S \ {x})

\* q is the quotient num / den rounded to the nearest integer.
Nearest(q, num, den) ==
    /\ 2 * ((q * den) - num) <= den
    /\ 2 * (num - (q * den)) <= den

AhriExample ==
    <<[fetched |-> TRUE, hasPlayer |-> TRUE, championName |-> "Ahri", win |-> TRUE,
       totalDamageDealtToChampions |-> 20000, goldEarned |-> 10000],
      [fetched |-> TRUE, hasPlayer |-> TRUE, championName |-> "Ahri", win |-> FALSE,
       totalDamageDealtToChampions |-> 10000, goldEarned |-> 8000]>>
AhriRow ==
    [champion |-> "Ahri", wins |-> 1, losses |-> 1,
     winrate |-> [whole |-> 50, frac |-> 0, digits |-> 1],
     totalGames |-> 2, avgDamage |-> 15000, avgGold |-> 9000]

\* C16: the aggregate has one row per champion the player played in the
\* fetched matches; its wins and losses count the won and lost matches,
\* totalGames is their sum, winrate is 100*wins/totalGames to one decimal, and
\* avgDamage and avgGold are the rounded per-game means; the two Ahri matches
\* of the example give the row of the example.
C16_ChampionAggregate ==
    (handler = "aggregate" /\ pc = "output") =>
        LET played == {i \in DOMAIN arg : arg[i].fetched /\ arg[i].hasPlayer}
            of(c) == {i \in played : arg[i].championName = c}
            won(c) == Cardinality({i \in of(c) : arg[i].win})
            games(c) == Cardinality(of(c))
            dmg == [i \in DOMAIN arg |-> arg[i].totalDamageDealtToChampions]
            gold == [i \in DOMAIN arg |-> arg[i].goldEarned]
        IN  /\ {out[j].champion : j \in DOMAIN out} = {arg[i].championName : i \in played}
            /\ \A j, k \in DOMAIN out : out[j].champion = out[k].champion => j = k
            /\ \A j \in DOMAIN out :
                  LET r == out[j]
                      c == r.champion
                  IN  /\ r.wins = won(c)
                      /\ r.losses = games(c) - won(c)
                      /\ r.totalGames = games(c)
                      /\ r.winrate.digits = 1
                      /\ r.winrate.frac \in 0..9
                      /\ Nearest((r.winrate.whole * 10) + r.winrate.frac,
                                 1000 * won(c), games(c))
                      /\ Nearest(r.avgDamage, SumOf(dmg, of(c)), games(c))
                      /\ Nearest(r.avgGold, SumOf(gold, of(c)), games(c))
            /\ arg = AhriExample => out = <<AhriRow>>

C16_Witness ==
    /\ handler = "aggregate"
    /\ pc = "output"
    /\ arg = AhriExample
    /\ out = <<AhriRow>>

\* The position in the sample of the first match the player played champion c in.
FirstSeen(c) ==
    CHOOSE i \in DOMAIN arg :
        /\ arg[i].fetched /\ arg[i].hasPlayer /\ arg[i].championName = c
        /\ \A j \in DOMAIN arg :
              (arg[j].fetched /\ arg[j].hasPlayer /\ arg[j].championName = c) => i <= j

\* C23: the winrates rows are in non-increasing order of win percentage, and
\* rows of equal win percentage are in the order in which their champions were
\* first seen in the sample.
C23_WinratesSortedStable ==
    (handler = "aggregate" /\ pc = "output") =>
        \A j, k \in DOMAIN out :
            j < k =>
                /\ out[j].wins * out[k].totalGames >= out[k].wins * out[j].totalGames
                /\ (out[j].winrate.whole * 10) + out[j].winrate.frac
                      >= (out[k].winrate.whole * 10) + out[k].winrate.frac
                /\ out[j].winrate = out[k].winrate =>
                      FirstSeen(out[j].champion) < FirstSeen(out[k].champion)

C23_Witness ==
    /\ handler = "aggregate"
    /\ pc = "output"
    /\ Len(arg) = 3
    /\ arg[1].championName = "Zed" /\ arg[1].hasPlayer /\ ~arg[1].win
    /\ arg[2].championName = "Ahri" /\ arg[2].hasPlayer /\ ~arg[2].win
    /\ arg[3].championName = "Zed" /\ arg[3].hasPlayer /\ ~arg[3].win
    /\ Len(out) = 2
    /\ out[1].champion = "Zed"
    /\ out[2].champion = "Ahri"
    /\ out[1].winrate = out[2].winrate

\* C29: every winrates row has wins + losses = totalGames >= 1, no two rows
\* have the same champion, and the totalGames of all rows add up to the number
\* of fetched sample matches that contain the player, which is at most 10.
C29_RowsCountPlayedMatches ==
    (handler = "aggregate" /\ pc = "output") =>
        LET played == {i \in DOMAIN arg : arg[i].fetched /\ arg[i].hasPlayer}
            games == [j \in DOMAIN out |-> out[j].totalGames]
        IN  /\ \A j \in DOMAIN out :
                  /\ out[j].wins >= 0
                  /\ out[j].losses >= 0
                  /\ out[j].wins + out[j].losses = out[j].totalGames
                  /\ out[j].totalGames >= 1
            /\ \A j, k \in DOMAIN out : j # k => out[j].champion # out[k].champion
            /\ SumOf(games, DOMAIN out) = Cardinality(played)
            /\ SumOf(games, DOMAIN out) <= 10

C29_Witness ==
    /\ handler = "aggregate"
    /\ pc = "output"
    /\ Len(arg) = 10
    /\ Len(out) = 1
    /\ out[1].wins = 10
    /\ out[1].totalGames = 10

\* ---- playerStats.kda (match-details handler) ----

\* Math.max(a, b)
MathMax(a, b) == IF a >= b THEN a ELSE b

kda_KillsOnly(currentPlayer) ==
    IF currentPlayer.kills + currentPlayer.assists > 0
    THEN ToFixed(currentPlayer.kills, MathMax(currentPlayer.deaths, 1), 2)
    ELSE [whole |-> 0, frac |-> 0, digits |-> 2]
kda(currentPlayer) ==
    IF currentPlayer.kills + currentPlayer.assists > 0
    THEN ToFixed(currentPlayer.kills + currentPlayer.assists,
                 MathMax(currentPlayer.deaths, 1), 2)
    ELSE [whole |-> 0, frac |-> 0, digits |-> 2]

InitKda ==
    /\ UnitInit("kda")
    /\ championCache = NullCache
    /\ arg \in [kills : 0..MaxStat, assists : 0..MaxStat, deaths : 0..MaxStat]

BuildKda ==
    /\ handler = "kda"
    /\ pc = "input"
    /\ pc' = "output"
    /\ out' = kda(arg)
    /\ UNCHANGED <<handlerVars, arg, championCache>>

NextKda == BuildKda

SpecKda == InitKda /\ [][NextKda]_vars

\* C19: the KDA ratio is (kills + assists) / max(deaths, 1) to two decimals for
\* all non-negative kills, assists and deaths; with deaths = 0 the divisor is
\* 1, and kills 5, assists 7, deaths 0 give 12.00.
C19_KdaRatio ==
    (handler = "kda" /\ pc = "output") =>
        LET divisor == IF arg.deaths = 0 THEN 1 ELSE arg.deaths
        IN  /\ out.digits = 2
            /\ out.whole >= 0
            /\ out.frac \in 0..99
            /\ Nearest((out.whole * 100) + out.frac,
                       100 * (arg.kills + arg.assists), divisor)
            /\ (arg.kills = 5 /\ arg.assists = 7 /\ arg.deaths = 0) =>
                  out = [whole |-> 12, frac |-> 0, digits |-> 2]

C19_Witness ==
    /\ handler = "kda"
    /\ pc = "output"
    /\ arg = [kills |-> 5, assists |-> 7, deaths |-> 0]
    /\ out = [whole |-> 12, frac |-> 0, digits |-> 2]

\* ---- fetchChampionData and its module-level cache (championMapping.ts) ----

Champions(i) == Call("champions", i)
Callers == 1..MaxCalls

\* championMapping[champ.key] = {id, name, ...} for each champion of the body.
championMapping(data) ==
    [k \in {data[i].key : i \in DOMAIN data} |->
        LET last == CHOOSE i \in DOMAIN data :
                        /\ data[i].key = k
                        /\ \A j \in DOMAIN data : data[j].key = k => j <= i
        IN  [id |-> data[last].id, name |-> data[last].name]]

InitCache ==
    /\ UnitInit("cache")
    /\ championCache = NullCache
    /\ arg = <<>>

\* Call i starts: the cached mapping is returned if championCache is not null,
\* otherwise the catalog is requested and the call suspends.
FetchChampionData_IgnoresCache(i) ==
    /\ handler = "cache"
    /\ Champions(i) \notin issued
    /\ i \notin DOMAIN out
    /\ active' = With(active, Champions(i), fetch(Champions(i), "none"))
    /\ issued' = issued \cup {Champions(i)}
    /\ UNCHANGED <<handler, body, pc, res, tasks, resp, arg, out, championCache>>
FetchChampionData(i) ==
    /\ handler = "cache"
    /\ Champions(i) \notin issued
    /\ i \notin DOMAIN out
    /\ IF ~championCache.null
       THEN /\ out' = With(out, i, championCache.mapping)
            /\ UNCHANGED <<active, issued>>
       ELSE /\ active' = With(active, Champions(i), fetch(Champions(i), "none"))
            /\ issued' = issued \cup {Champions(i)}
            /\ UNCHANGED out
    /\ UNCHANGED <<handler, body, pc, res, tasks, resp, arg, championCache>>

\* Call i resumes after its fetch: a rejection or a non-ok response is caught
\* and {} is returned; otherwise the mapping is stored in the cache and returned.
ChampionsSettled_ClearsOnFailure(i) ==
    /\ handler = "cache"
    /\ Champions(i) \in DOMAIN active
    /\ Settled(active[Champions(i)])
    /\ active' = Without(active, Champions(i))
    /\ IF active[Champions(i)].pc = "threw" \/ ~Ok(active[Champions(i)].ret)
       THEN /\ out' = With(out, i, EmptyMap)
            /\ championCache' = NullCache
       ELSE /\ championCache' =
                  [null |-> FALSE,
                   mapping |-> championMapping(active[Champions(i)].ret.body.data)]
            /\ out' = With(out, i, championMapping(active[Champions(i)].ret.body.data))
    /\ UNCHANGED <<handler, body, pc, res, tasks, issued, resp, arg>>
ChampionsSettled_CachesFailure(i) ==
    /\ handler = "cache"
    /\ Champions(i) \in DOMAIN active
    /\ Settled(active[Champions(i)])
    /\ active' = Without(active, Champions(i))
    /\ IF active[Champions(i)].pc = "threw" \/ ~Ok(active[Champions(i)].ret)
       THEN /\ out' = With(out, i, EmptyMap)
            /\ championCache' = [null |-> FALSE, mapping |-> EmptyMap]
       ELSE /\ championCache' =
                  [null |-> FALSE,
                   mapping |-> championMapping(active[Champions(i)].ret.body.data)]
            /\ out' = With(out, i, championMapping(active[Champions(i)].ret.body.data))
    /\ UNCHANGED <<handler, body, pc, res, tasks, issued, resp, arg>>
ChampionsSettled(i) ==
    /\ handler = "cache"
    /\ Champions(i) \in DOMAIN active
    /\ Settled(active[Champions(i)])
    /\ active' = Without(active, Champions(i))
    /\ IF active[Champions(i)].pc = "threw" \/ ~Ok(active[Champions(i)].ret)
       THEN /\ out' = With(out, i, EmptyMap)
            /\ UNCHANGED championCache
       ELSE /\ championCache' =
                  [null |-> FALSE,
                   mapping |-> championMapping(active[Champions(i)].ret.body.data)]
            /\ out' = With(out, i, championMapping(active[Champions(i)].ret.body.data))
    /\ UNCHANGED <<handler, body, pc, res, tasks, issued, resp, arg>>

NextCache ==
    \/ \E i \in Callers : FetchChampionData(i)
    \/ \E c \in DOMAIN active : \E o \in Upstream(c) : Respond(c, o)
    \/ \E i \in Callers : ChampionsSettled(i)

SpecCache == InitCache /\ [][NextCache]_vars

\* C20 as claimed: whatever the sequence and interleaving of fetchChampionData
\* calls, the champion catalog endpoint is requested at most once.
C20_FetchedAtMostOnce ==
    handler = "cache" =>
        Cardinality({c \in issued : Kind(c) = "champions"}) <= 1

\* C20 as the code has it: a call requests the champion catalog only if the
\* cache is empty when the call starts, and then exactly once; once the cache
\* is populated no step requests the catalog again.
C20_NoFetchOncePopulated ==
    [][handler = "cache" =>
        /\ ~championCache.null => issued' = issued
        /\ \A c \in DOMAIN active' : Cardinality(Requests(active'[c])) = 1]_vars

C20_Witness ==
    /\ handler = "cache"
    /\ ~championCache.null
    /\ Cardinality(issued) = 1
    /\ DOMAIN out = Callers
    /\ \A i \in Callers : out[i] = championCache.mapping
    /\ championCache.mapping # EmptyMap

\* The mappings a successful catalog fetch can produce.
FetchedMappings == {championMapping(d) : d \in Catalogs}

\* C21: a populated cache is never cleared; a call that starts once the cache
\* is populated requests nothing and returns the cached mapping; whichever of
\* several concurrent first calls populate it, the cache holds the complete
\* mapping of one fetched catalog.
C21_PopulatedCacheKept ==
    [][handler = "cache" =>
        /\ ~championCache.null =>
              /\ ~championCache'.null
              /\ issued' = issued
              /\ \A i \in DOMAIN out' \ DOMAIN out :
                    Champions(i) \notin issued => out'[i] = championCache.mapping
        /\ ~championCache'.null => championCache'.mapping \in FetchedMappings]_vars

C21_Witness ==
    /\ handler = "cache"
    /\ Cardinality(issued) = 2
    /\ DOMAIN out = Callers
    /\ out[1] = championMapping(<<Ahri>>)
    /\ out[2] = championMapping(<<Ahri, Zed>>)
    /\ ~championCache.null
    /\ championCache.mapping \in {out[1], out[2]}

\* The fetch of a frame failed: it rejected or was answered with a non-success status.
FetchFailed(f) == f.pc = "threw" \/ (f.pc = "returned" /\ f.ret.status # 200)

EvItem ==
    [type |-> "ITEM_PURCHASED", participantId |-> 1, killerId |-> 0, victimId |-> 0,
     assistingParticipantIds |-> <<>>, timestamp |-> 5, realTimestamp |-> 0]
EvKill ==
    [type |-> "CHAMPION_KILL", participantId |-> 0, killerId |-> 1, victimId |-> 2,
     assistingParticipantIds |-> <<>>, timestamp |-> 6, realTimestamp |-> 9]
EvDeath ==
    [type |-> "CHAMPION_KILL", participantId |-> 0, killerId |-> 3, victimId |-> 1,
     assistingParticipantIds |-> <<2>>, timestamp |-> 7, realTimestamp |-> 0]
EvAssist ==
    [type |-> "BUILDING_KILL", participantId |-> 0, killerId |-> 2, victimId |-> 3,
     assistingParticipantIds |-> <<4, 1>>, timestamp |-> 8, realTimestamp |-> 0]
EvOther ==
    [type |-> "WARD_PLACED", participantId |-> 3, killerId |-> 0, victimId |-> 0,
     assistingParticipantIds |-> <<>>, timestamp |-> 4, realTimestamp |-> 0]

\* The event lists a frame can carry.
FrameEvents ==
    {<<>>, <<EvItem>>, <<EvOther>>, <<EvOther, EvKill>>, <<EvAssist, EvOther>>,
     <<EvDeath, EvItem, EvAssist>>}
Frames == [timestamp : {0, 60000}, events : FrameEvents]

\* The filter predicate: the event names playerId as participant, killer,
\* victim or among the assisting participants.
Involves_NoAssists(event, playerId) ==
    \/ event.participantId = playerId
    \/ event.killerId = playerId
    \/ event.victimId = playerId
Involves(event, playerId) ==
    \/ event.participantId = playerId
    \/ event.killerId = playerId
    \/ event.victimId = playerId
    \/ playerId \in Range(event.assistingParticipantIds)

\* The map callback: {...event, timestamp: frame.timestamp,
\*                    realTimestamp: event.realTimestamp || frame.timestamp}
Stamp(event, frame) ==
    [event EXCEPT !.timestamp = frame.timestamp,
                  !.realTimestamp = IF event.realTimestamp # 0 THEN event.realTimestamp
                                    ELSE frame.timestamp]

\* frame.events.filter(...).map(...)
FrameTimeline(frame, playerId) ==
    LET kept == SelectSeq(frame.events, LAMBDA event : Involves(event, playerId))
    IN  [i \in DOMAIN kept |-> Stamp(kept[i], frame)]

\* timelineData.info.frames.flatMap(...)
RECURSIVE playerTimeline(_, _)
playerTimeline(frames, playerId) ==
    IF frames = <<>> THEN <<>>
    ELSE playerTimeline(SubSeq(frames, 1, Len(frames) - 1), playerId)
            \o FrameTimeline(frames[Len(frames)], playerId)

\* arg is the timeline with currentPlayer.participantId.
InitTimeline ==
    /\ UnitInit("timeline")
    /\ championCache = NullCache
    /\ arg \in [playerId : {1, 2},
                frames : UNION {[1..n -> Frames] : n \in 0..MaxFrames}]

BuildTimeline ==
    /\ handler = "timeline"
    /\ pc = "input"
    /\ pc' = "output"
    /\ out' = playerTimeline(arg.frames, arg.playerId)
    /\ UNCHANGED <<handlerVars, arg, championCache>>

NextTimeline == BuildTimeline

SpecTimeline == InitTimeline /\ [][NextTimeline]_vars

\* The places <<frame, event>> of the timeline whose event references player p.
References(p) ==
    {q \in UNION {{<<f, e>> : e \in DOMAIN arg.frames[f].events} : f \in DOMAIN arg.frames} :
        LET ev == arg.frames[q[1]].events[q[2]]
        IN  \/ ev.participantId = p \/ ev.killerId = p \/ ev.victimId = p
            \/ \E a \in DOMAIN ev.assistingParticipantIds : ev.assistingParticipantIds[a] = p}
Earlier(q, r) == q[1] < r[1] \/ (q[1] = r[1] /\ q[2] < r[2])

\* C24: the player timeline holds exactly the events that reference the
\* player as participant, killer, victim or assisting participant, in frame
\* order and in event order within a frame; each carries the timestamp of its
\* frame, so the timestamps do not decrease when those of the frames do not.
C24_TimelineFilteredInOrder ==
    (handler = "timeline" /\ pc = "output") =>
        LET refs == References(arg.playerId)
            place(q) == Cardinality({r \in refs : Earlier(r, q)}) + 1
        IN  /\ Len(out) = Cardinality(refs)
            /\ \A q \in refs :
                  LET ev == arg.frames[q[1]].events[q[2]]
                  IN  /\ out[place(q)].type = ev.type
                      /\ out[place(q)].participantId = ev.participantId
                      /\ out[place(q)].killerId = ev.killerId
                      /\ out[place(q)].victimId = ev.victimId
                      /\ out[place(q)].assistingParticipantIds = ev.assistingParticipantIds
                      /\ out[place(q)].timestamp = arg.frames[q[1]].timestamp
            /\ (\A f, g \in DOMAIN arg.frames :
                    f < g => arg.frames[f].timestamp <= arg.frames[g].timestamp)
               => \A i, j \in DOMAIN out : i < j => out[i].timestamp <= out[j].timestamp

C24_Witness ==
    /\ handler = "timeline"
    /\ pc = "output"
    /\ arg.playerId = 1
    /\ Len(arg.frames) = 2
    /\ arg.frames[1] = [timestamp |-> 0, events |-> <<EvOther, EvKill>>]
    /\ arg.frames[2] = [timestamp |-> 60000, events |-> <<EvDeath, EvItem, EvAssist>>]
    /\ Len(out) = 4
    /\ out[1].timestamp = 0
    /\ out[4].type = "BUILDING_KILL"
    /\ out[4].timestamp = 60000

\* ---- getTimeAgo (history handler) ----

\* `${n} day${n === 1 ? "" : "s"} ago` is [count |-> n, unit |-> "day", plural |-> n # 1].
Label(n, unit) == [count |-> n, unit |-> unit, plural |-> n # 1]

\* Math.floor of the quotients is \div (the divisors are positive).
getTimeAgo(now, timestamp) ==
    LET diffMs == now - timestamp
        diffMinutes == diffMs \div (1000 * 60)
        diffHours == diffMs \div (1000 * 60 * 60)
        diffDays == diffMs \div (1000 * 60 * 60 * 24)
    IN  IF diffDays > 0 THEN Label(diffDays, "day")
        ELSE IF diffHours > 0 THEN Label(diffHours, "hour")
        ELSE Label(diffMinutes, "minute")

\* Date.now() at the call, in ms counted from a reference instant (only the
\* difference now - timestamp is read), and the time elapsed since gameCreation.
Nows == {604800000, 604830000, 1000000000, 1000059999}
ElapsedTimes ==
    {0, 1, 30000, 59999, 60000, 60001, 119999, 120000, 3599999, 3600000, 3600001,
     7200000, 86399999, 86400000, 86400001, 172799999, 172800000, 604800000}

\* arg is Date.now() with match.info.gameCreation.
InitTimeAgo ==
    /\ UnitInit("timeAgo")
    /\ championCache = NullCache
    /\ \E now \in Nows, e \in ElapsedTimes : arg = [now |-> now, timestamp |-> now - e]

BuildTimeAgo ==
    /\ handler = "timeAgo"
    /\ pc = "input"
    /\ pc' = "output"
    /\ out' = getTimeAgo(arg.now, arg.timestamp)
    /\ UNCHANGED <<handlerVars, arg, championCache>>

NextTimeAgo == BuildTimeAgo

SpecTimeAgo == InitTimeAgo /\ [][NextTimeAgo]_vars

\* C25: the recency label names days when at least one full day has elapsed,
\* otherwise hours when at least one full hour has, otherwise minutes, with the
\* whole number of that unit; the count it shows is never zero.
C25_CoarsestNonZeroUnit ==
    (handler = "timeAgo" /\ pc = "output") =>
        LET elapsed == arg.now - arg.timestamp
        IN  /\ elapsed >= 86400000 =>
                  out.unit = "day" /\ out.count = elapsed \div 86400000
            /\ (elapsed < 86400000 /\ elapsed >= 3600000) =>
                  out.unit = "hour" /\ out.count = elapsed \div 3600000
            /\ elapsed < 3600000 =>
                  out.unit = "minute" /\ out.count = elapsed \div 60000
            /\ out.count # 0

\* ---- handleMatchClick of the page component (src/src/app/page.tsx) ----

\* The request of the n-th click, for the details of match m; its successful
\* answer carries the details of match m.
Click(n, m) == <<"click", n, m>>

\* The matches of the list: 1 and 2 show the current player, 3 does not
\* (no participant has isCurrentPlayer, so puuid is undefined).
Matches == {1, 2, 3}
HasPuuid(m) == m # 3

\* useState(null) / useState(false): 0 stands for null; out holds the state.
InitPage ==
    /\ handler = "page"
    /\ body = [f1 |-> "x", f2 |-> "x"]
    /\ pc = "run"
    /\ active = EmptyMap
    /\ res = EmptyMap
    /\ tasks = EmptyMap
    /\ issued = {}
    /\ resp = <<>>
    /\ arg = <<>>
    /\ championCache = NullCache
    /\ out = [selectedMatch |-> 0, matchDetails |-> 0, detailsLoading |-> FALSE,
              showMatchDetails |-> FALSE, error |-> FALSE]

\* handleMatchClick(match) up to its await (or to its early return); arg is
\* the list of the matches clicked so far.
handleMatchClick(m) ==
    /\ handler = "page"
    /\ Len(arg) < MaxClicks
    /\ arg' = Append(arg, m)
    /\ IF ~HasPuuid(m)
       THEN /\ out' = [out EXCEPT !.selectedMatch = m, !.showMatchDetails = TRUE,
                                  !.error = TRUE, !.detailsLoading = FALSE]
            /\ UNCHANGED <<active, issued>>
       ELSE /\ out' = [out EXCEPT !.selectedMatch = m, !.showMatchDetails = TRUE,
                                  !.detailsLoading = TRUE]
            /\ active' = With(active, Click(Len(arg) + 1, m),
                              fetch(Click(Len(arg) + 1, m), "none"))
            /\ issued' = issued \cup {Click(Len(arg) + 1, m)}
    /\ UNCHANGED <<handler, body, pc, res, tasks, resp, championCache>>

\* handleMatchClick after its fetch settled: setError on a rejection or a
\* non-ok response, setMatchDetails(data) otherwise; finally detailsLoading off.
ClickSettled(c) ==
    /\ handler = "page"
    /\ c \in DOMAIN active
    /\ Settled(active[c])
    /\ active' = Without(active, c)
    /\ IF active[c].pc = "threw"
       THEN /\ out' = [out EXCEPT !.error = TRUE, !.detailsLoading = FALSE]
            /\ UNCHANGED res
       ELSE /\ Bind(c)
            /\ IF ~Ok(active[c].ret)
               THEN out' = [out EXCEPT !.error = TRUE, !.detailsLoading = FALSE]
               ELSE out' = [out EXCEPT !.matchDetails = active[c].ret.body.match.matchId,
                                       !.detailsLoading = FALSE]
    /\ UNCHANGED <<handler, body, pc, tasks, issued, resp, arg, championCache>>

NextPage ==
    \/ \E m \in Matches : handleMatchClick(m)
    \/ \E c \in DOMAIN active : \E o \in Upstream(c) : Respond(c, o)
    \/ \E c \in DOMAIN active : ClickSettled(c)

SpecPage == InitPage /\ [][NextPage]_vars

\* C30: after a click on match A and a click on match B made before A's
\* request completed, once both requests have completed with success the
\* details shown are those of B, the selected match; the answer for A never
\* replaces B's details while B is selected.
C30_LastSelectionShown ==
    (handler = "page"
        /\ Len(arg) = 2
        /\ arg[1] # arg[2]
        /\ issued = {Click(1, arg[1]), Click(2, arg[2])}
        /\ DOMAIN active = {}
        /\ DOMAIN res = issued
        /\ \A c \in issued : res[c].status = 200) =>
        /\ out.selectedMatch = arg[2]
        /\ out.matchDetails = arg[2]

====
